---- MODULE Spec2Model ----
(***************************************************************************)
(* The Merkle Patricia Trie node codec of crates/mpt/src/node.rs:          *)
(* TrieNode, its RLP Encodable/Decodable implementations, blind(), and the *)
(* helpers blinded_length, encode_blinded and rlp_list_element_length.     *)
(*                                                                         *)
(* Bytes are naturals in 0..255 and byte strings are sequences of them.    *)
(* A node is a record with the fields type, commitment, key, value,        *)
(* prefix, node, stack; the fields a variant does not have are left at     *)
(* their empty values, so that two nodes are equal exactly when the        *)
(* derived PartialEq of TrieNode says so.                                  *)
(***************************************************************************)
EXTENDS Naturals, Integers, Sequences, FiniteSets, TLC

RECURSIVE encode(_)
RECURSIVE length(_)
RECURSIVE decode(_)
RECURSIVE to_be_bytes_trimmed(_)
RECURSIVE from_be_bytes(_)
RECURSIVE ConcatAll(_)
RECURSIVE SumAll(_)
RECURSIVE Mix(_)
RECURSIVE VecDecodeLoop(_, _)
RECURSIVE ListWalk(_, _, _)
RECURSIVE ListWalkInclusive(_, _, _)

(* ---------------------------------------------------------------- *)
(* Program constants                                                 *)
(* ---------------------------------------------------------------- *)

BRANCH_LIST_LENGTH == 17

LEAF_OR_EXTENSION_LIST_LENGTH == 2

PREFIX_EXTENSION_EVEN == 0

PREFIX_EXTENSION_ODD == 1

PREFIX_LEAF_EVEN == 2

PREFIX_LEAF_ODD == 3

\* alloy_rlp::EMPTY_STRING_CODE (0x80) and EMPTY_LIST_CODE (0xC0)
EMPTY_STRING_CODE == 128

EMPTY_LIST_CODE == 192

\* B256::len_bytes()
B256_LEN_BYTES == 32

(* ---------------------------------------------------------------- *)
(* Byte-string helpers                                               *)
(* ---------------------------------------------------------------- *)

\* k copies of byte b
Rep(b, k) == [i \in 1..k |-> b]

\* buf[n..] : Buf::advance(n) on a slice cursor
Advance(buf, n) == SubSeq(buf, n + 1, Len(buf))

\* buf[..n]
Take(buf, n) == SubSeq(buf, 1, n)

ConcatAll(ss) == IF ss = <<>> THEN <<>> ELSE Head(ss) \o ConcatAll(Tail(ss))

SumAll(ns) == IF ns = <<>> THEN 0 ELSE Head(ns) + SumAll(Tail(ns))

(* ---------------------------------------------------------------- *)
(* keccak256: an uninterpreted 32-byte digest of the input bytes.    *)
(* The model uses an order-sensitive checksum, computed by halving   *)
(* the input, spread over 32 bytes; only determinism and the 32-byte *)
(* width are relied upon.                                            *)
(* ---------------------------------------------------------------- *)

Mix(b) ==
    IF Len(b) = 0 THEN 7
    ELSE IF Len(b) = 1 THEN b[1] + 1
    ELSE LET m == Len(b) \div 2
         IN  (Mix(SubSeq(b, 1, m)) * 31 + Mix(SubSeq(b, m + 1, Len(b))) * 17
                + Len(b)) % 65521

keccak256(b) ==
    LET h == Mix(b)
    IN  [i \in 1..B256_LEN_BYTES |->
            IF i = 1 THEN h \div 256
            ELSE IF i = 2 THEN h % 256
            ELSE (h + 13 * i) % 256]

(* ---------------------------------------------------------------- *)
(* alloy_rlp: Header, length_of_length, byte-string and list coding  *)
(* ---------------------------------------------------------------- *)

\* usize::to_be_bytes with the leading zero bytes trimmed
to_be_bytes_trimmed(n) ==
    IF n = 0 THEN <<>> ELSE to_be_bytes_trimmed(n \div 256) \o <<n % 256>>

\* u64::from_be_bytes of a left-padded slice
from_be_bytes(bs) ==
    IF bs = <<>> THEN 0
    ELSE from_be_bytes(Take(bs, Len(bs) - 1)) * 256 + bs[Len(bs)]

\* alloy_rlp::length_of_length == Header::length()
HeaderLength(payload_length) ==
    IF payload_length < 56 THEN 1
    ELSE 1 + Len(to_be_bytes_trimmed(payload_length))

\* Header { list, payload_length }.encode(out)
HeaderEncode(list, payload_length) ==
    LET code == IF list THEN EMPTY_LIST_CODE ELSE EMPTY_STRING_CODE
    IN  IF payload_length < 56
        THEN <<code + payload_length>>
        ELSE LET len_be == to_be_bytes_trimmed(payload_length)
             IN  <<code + 55 + Len(len_be)>> \o len_be

\* <[u8] as Encodable>::length, used for Bytes
BytesLength(b) ==
    IF Len(b) # 1 \/ b[1] >= EMPTY_STRING_CODE
    THEN Len(b) + HeaderLength(Len(b))
    ELSE Len(b)

\* <[u8] as Encodable>::encode, used for Bytes and for B256
BytesEncode(b) ==
    IF Len(b) # 1 \/ b[1] >= EMPTY_STRING_CODE
    THEN HeaderEncode(FALSE, Len(b)) \o b
    ELSE b

\* B256::ZERO.length(): the encoded length of a 32-byte string
B256_ZERO_length == BytesLength(Rep(0, B256_LEN_BYTES))

(* ---------------------------------------------------------------- *)
(* TrieNode                                                          *)
(* ---------------------------------------------------------------- *)

Node(t, c, k, v, p, n, s) ==
    [type |-> t, commitment |-> c, key |-> k, value |-> v,
     prefix |-> p, node |-> n, stack |-> s]

Empty == Node("Empty", <<>>, <<>>, <<>>, <<>>, <<>>, <<>>)

Blinded(c) == Node("Blinded", c, <<>>, <<>>, <<>>, <<>>, <<>>)

Leaf(k, v) == Node("Leaf", <<>>, k, v, <<>>, <<>>, <<>>)

\* the boxed child is held as a one-element sequence
Extension(p, n) == Node("Extension", <<>>, <<>>, <<>>, p, <<n>>, <<>>)

Branch(s) == Node("Branch", <<>>, <<>>, <<>>, <<>>, <<>>, s)

\* fn blinded_length
blinded_length(value) ==
    IF length(value) > B256_ZERO_length
    THEN B256_ZERO_length
    ELSE length(value)

\* encode_blinded with the threshold taken as the 32 bytes of a digest
\* instead of the 33 bytes of its encoding
encode_blinded_digest_size(value) ==
    IF length(value) > B256_LEN_BYTES
    THEN encode(Blinded(keccak256(encode(value))))
    ELSE encode(value)

\* fn encode_blinded
encode_blinded(value) ==
    IF length(value) > B256_ZERO_length
    THEN encode(Blinded(keccak256(encode(value))))
    ELSE encode(value)

\* blind with the threshold comparison made inclusive
blind_inclusive(self) ==
    IF length(self) >= B256_ZERO_length
    THEN Blinded(keccak256(encode(self)))
    ELSE self

\* TrieNode::blind
blind(self) ==
    IF length(self) > B256_ZERO_length
    THEN Blinded(keccak256(encode(self)))
    ELSE self

\* <Vec<TrieNode> as Encodable>::encode : list header over the items' length(),
\* then each item's encode()
VecEncode(v) ==
    HeaderEncode(TRUE, SumAll([i \in 1..Len(v) |-> length(v[i])]))
        \o ConcatAll([i \in 1..Len(v) |-> encode(v[i])])

\* impl Encodable for TrieNode :: encode
encode(self) ==
    CASE self.type = "Empty" -> <<EMPTY_STRING_CODE>>
      [] self.type = "Blinded" -> BytesEncode(self.commitment)
      [] self.type = "Leaf" ->
            HeaderEncode(TRUE, BytesLength(self.key) + BytesLength(self.value))
                \o BytesEncode(self.key) \o BytesEncode(self.value)
      [] self.type = "Extension" ->
            HeaderEncode(TRUE, BytesLength(self.prefix) + length(self.node[1]))
                \o BytesEncode(self.prefix)
                \o encode_blinded(self.node[1])
      [] self.type = "Branch" ->
            VecEncode([i \in 1..Len(self.stack) |-> blind(self.stack[i])])

\* impl Encodable for TrieNode :: length
length(self) ==
    CASE self.type = "Empty" -> 1
      [] self.type = "Blinded" -> BytesLength(self.commitment)
      [] self.type = "Leaf" ->
            LET payload == BytesLength(self.key) + BytesLength(self.value)
            IN  payload + HeaderLength(payload)
      [] self.type = "Extension" ->
            LET prefix_length == BytesLength(self.prefix)
                node_length == blinded_length(self.node[1])
            IN  HeaderLength(prefix_length + node_length)
                    + prefix_length + node_length
      [] self.type = "Branch" ->
            LET inner_length ==
                    SumAll([i \in 1..Len(self.stack) |->
                                blinded_length(self.stack[i])])
            IN  inner_length + HeaderLength(inner_length)

(* ---------------------------------------------------------------- *)
(* Decoding                                                          *)
(* ---------------------------------------------------------------- *)

HeaderOk(list, payload_length, rest) ==
    [ok |-> TRUE, err |-> "", list |-> list,
     payload_length |-> payload_length, rest |-> rest]

HeaderErr(e) ==
    [ok |-> FALSE, err |-> e, list |-> FALSE, payload_length |-> 0,
     rest |-> <<>>]

\* alloy_rlp::Header::decode: the header at the front of buf; rest is the
\* cursor after the header bytes. A single byte below 0x80 is its own
\* payload and is not consumed.
HeaderDecodeRaw(buf) ==
    IF buf = <<>> THEN HeaderErr("InputTooShort")
    ELSE LET b == buf[1] IN
      IF b < EMPTY_STRING_CODE THEN HeaderOk(FALSE, 1, buf)
      ELSE IF b <= 183 THEN
        LET payload_length == b - EMPTY_STRING_CODE
            rest == Advance(buf, 1)
        IN  IF payload_length = 1 /\ rest = <<>>
            THEN HeaderErr("InputTooShort")
            ELSE IF payload_length = 1 /\ rest[1] < EMPTY_STRING_CODE
            THEN HeaderErr("NonCanonicalSingleByte")
            ELSE HeaderOk(FALSE, payload_length, rest)
      ELSE IF b <= 191 \/ b >= 248 THEN
        LET list == b >= 248
            len_of_len == IF list THEN b - 247 ELSE b - 183
            rest == Advance(buf, 1)
        IN  IF Len(rest) < len_of_len THEN HeaderErr("InputTooShort")
            ELSE IF rest[1] = 0 THEN HeaderErr("LeadingZero")
            ELSE LET payload_length == from_be_bytes(Take(rest, len_of_len))
                 IN  IF payload_length < 56
                     THEN HeaderErr("NonCanonicalSize")
                     ELSE HeaderOk(list, payload_length,
                                   Advance(rest, len_of_len))
      ELSE HeaderOk(TRUE, b - EMPTY_LIST_CODE, Advance(buf, 1))

\* the closing check of Header::decode: the payload must fit in the buffer
HeaderDecode(buf) ==
    LET h == HeaderDecodeRaw(buf)
    IN  IF h.ok /\ Len(h.rest) < h.payload_length
        THEN HeaderErr("InputTooShort")
        ELSE h

\* Results of the decoders: a value and the cursor left behind, an error
\* value, or a panic of the thread.
Ok(v, rest) == [tag |-> "Ok", val |-> v, rest |-> rest, err |-> ""]

Err(e) == [tag |-> "Err", val |-> <<>>, rest |-> <<>>, err |-> e]

Panic == [tag |-> "Panic", val |-> <<>>, rest |-> <<>>, err |-> ""]

\* alloy_rlp::Header::decode_bytes(buf, is_list): the payload slice
decode_bytes(buf, is_list) ==
    LET h == HeaderDecode(buf)
    IN  IF ~h.ok THEN Err(h.err)
        ELSE IF h.list # is_list
        THEN Err(IF is_list THEN "UnexpectedString" ELSE "UnexpectedList")
        ELSE Ok(Take(h.rest, h.payload_length),
                Advance(h.rest, h.payload_length))

\* <Bytes as Decodable>::decode
BytesDecode(buf) == decode_bytes(buf, FALSE)

\* <B256 as Decodable>::decode: a byte string of exactly 32 bytes
B256Decode(buf) ==
    LET r == decode_bytes(buf, FALSE)
    IN  IF r.tag = "Ok" /\ Len(r.val) # B256_LEN_BYTES
        THEN Err("UnexpectedLength")
        ELSE r

\* the while loop of rlp_list_element_length: buf is the cursor,
\* len_after_consume the cursor length at which the list is taken to end
ListWalk(buf, len_after_consume, list_element_length) ==
    IF Len(buf) > len_after_consume
    THEN LET header == HeaderDecode(buf)
         IN  IF ~header.ok THEN Err(header.err)
             ELSE ListWalk(Advance(header.rest, header.payload_length),
                           len_after_consume, list_element_length + 1)
    ELSE Ok(list_element_length, buf)

\* the walk with the loop condition made inclusive: it reads one header
\* past the end of the list
ListWalkInclusive(buf, len_after_consume, list_element_length) ==
    IF Len(buf) >= len_after_consume
    THEN LET header == HeaderDecode(buf)
         IN  IF ~header.ok THEN Err(header.err)
             ELSE ListWalkInclusive(Advance(header.rest, header.payload_length),
                                    len_after_consume, list_element_length + 1)
    ELSE Ok(list_element_length, buf)

rlp_list_element_length_inclusive(buf) ==
    LET header == HeaderDecode(buf)
    IN  IF ~header.ok THEN Err(header.err)
        ELSE IF ~header.list THEN Err("UnexpectedString")
        ELSE ListWalkInclusive(header.rest,
                               Len(header.rest) - header.payload_length, 0)

\* fn rlp_list_element_length
rlp_list_element_length(buf) ==
    LET header == HeaderDecode(buf)
    IN  IF ~header.ok THEN Err(header.err)
        ELSE IF ~header.list THEN Err("UnexpectedString")
        ELSE ListWalk(header.rest, Len(header.rest) - header.payload_length, 0)

\* TrieNode::try_decode_leaf_or_extension_payload. Its anyhow errors are
\* "Failed to decode: .." and "Unexpected path identifier in high-order
\* nibble"; indexing path[0] of an empty path panics.
try_decode_leaf_or_extension_payload(buf) ==
    LET path == BytesDecode(buf)
    IN  IF path.tag # "Ok" THEN Err("Failed to decode")
        ELSE IF path.val = <<>> THEN Panic
        ELSE LET nibble == path.val[1] \div 16 IN
          IF nibble \in {PREFIX_EXTENSION_EVEN, PREFIX_EXTENSION_ODD}
          THEN LET extension_node_value == decode(path.rest)
               IN  IF extension_node_value.tag = "Panic" THEN Panic
                   ELSE IF extension_node_value.tag = "Err"
                   THEN Err("Failed to decode")
                   ELSE Ok(Extension(path.val, extension_node_value.val),
                           extension_node_value.rest)
          ELSE IF nibble \in {PREFIX_LEAF_EVEN, PREFIX_LEAF_ODD}
          THEN LET value == BytesDecode(path.rest)
               IN  IF value.tag # "Ok" THEN Err("Failed to decode")
                   ELSE Ok(Leaf(path.val, value.val), value.rest)
          ELSE Err("Unexpected path identifier in high-order nibble")

\* the while loop of <Vec<TrieNode> as Decodable>::decode over the payload view
VecDecodeLoop(payload_view, vec) ==
    IF payload_view = <<>> THEN Ok(vec, <<>>)
    ELSE LET item == decode(payload_view)
         IN  IF item.tag # "Ok" THEN item
             ELSE VecDecodeLoop(item.rest, Append(vec, item.val))

\* <Vec<TrieNode> as Decodable>::decode
VecDecode(buf) ==
    LET bytes == decode_bytes(buf, TRUE)
    IN  IF bytes.tag # "Ok" THEN bytes
        ELSE LET r == VecDecodeLoop(bytes.val, <<>>)
             IN  IF r.tag # "Ok" THEN r ELSE Ok(r.val, bytes.rest)

\* impl Decodable for TrieNode :: decode
decode(buf) ==
    LET header == HeaderDecode(buf)
    IN  IF ~header.ok THEN Err(header.err)
        ELSE IF header.list
        THEN LET list_length == rlp_list_element_length(buf)
             IN  IF list_length.tag # "Ok" THEN list_length
                 ELSE IF list_length.val = BRANCH_LIST_LENGTH
                 THEN LET list == VecDecode(buf)
                      IN  IF list.tag # "Ok" THEN list
                          ELSE Ok(Branch(list.val), list.rest)
                 ELSE IF list_length.val = LEAF_OR_EXTENSION_LIST_LENGTH
                 THEN LET r == try_decode_leaf_or_extension_payload(
                                   Advance(buf, HeaderLength(header.payload_length)))
                      IN  IF r.tag = "Err" THEN Err("UnexpectedList") ELSE r
                 ELSE Err("UnexpectedLength")
        ELSE IF header.payload_length = 0
        THEN Ok(Empty, Advance(buf, HeaderLength(header.payload_length)))
        ELSE IF header.payload_length # B256_LEN_BYTES
        THEN Err("UnexpectedLength")
        ELSE LET commitment == B256Decode(buf)
             IN  IF commitment.tag # "Ok" THEN commitment
                 ELSE Ok(Blinded(commitment.val), commitment.rest)

(* ---------------------------------------------------------------- *)
(* Bounds and the nodes and byte sequences the codec is driven with  *)
(* ---------------------------------------------------------------- *)

\* nesting depth of the nodes handed to the encoder
MaxDepth == 2

\* length of the raw byte sequences handed to the decoder
MaxRawLen == 4

NoNode == Node("None", <<>>, <<>>, <<>>, <<>>, <<>>, <<>>)

NoResult == [tag |-> "None", val |-> <<>>, rest |-> <<>>, err |-> ""]

\* leaf keys 30 and 20 64 6f; the empty key and 40 break the path invariant
Keys == {<<48>>, <<32, 100, 111>>}

BadKeys == {<<>>, <<64>>}

\* extension prefixes 00 64 6f and 10
Prefixes == {<<0, 100, 111>>, <<16>>}

\* leaf values: empty, one byte on either side of 0x80, the 11 bytes of the
\* tests, and runs of 0xff that put a leaf at 33, 34 and 69 encoded bytes
Values ==
    {<<>>, <<5>>, <<128>>,
     <<138, 116, 101, 115, 116, 32, 116, 104, 114, 101, 101>>,
     Rep(255, 30), Rep(255, 31), Rep(255, 64)}

Commitments == {Rep(235, B256_LEN_BYTES), keccak256(<<>>)}

\* a branch of 17 slots, all Empty but slot i
BranchWith(i, n) ==
    Branch([j \in 1..BRANCH_LIST_LENGTH |-> IF j = i THEN n ELSE Empty])

\* the shape of test_decode_branch: a commitment in slot 0, n in slot 8
BranchLike(n) ==
    Branch([j \in 1..BRANCH_LIST_LENGTH |->
               IF j = 1 THEN Blinded(Rep(235, B256_LEN_BYTES))
               ELSE IF j = 9 THEN n ELSE Empty])

RECURSIVE NodesOfDepth(_)
NodesOfDepth(d) ==
    IF d = 0
    THEN {Empty} \cup {Blinded(c) : c \in Commitments}
            \cup {Leaf(k, v) : k \in Keys, v \in Values}
            \cup {Leaf(k, <<5>>) : k \in BadKeys}
    ELSE LET below == NodesOfDepth(d - 1)
         IN  below
               \cup {Extension(p, n) : p \in Prefixes, n \in below}
               \cup {BranchWith(i, n) : i \in {1, BRANCH_LIST_LENGTH}, n \in below}
               \cup {BranchLike(n) : n \in below}

Nodes == NodesOfDepth(MaxDepth)

\* 00 20 40 80 81 c2 c3
Alphabet == {0, 32, 64, 128, 129, 194, 195}

RawSeqs == UNION {[1..n -> Alphabet] : n \in 0..MaxRawLen}

\* a list header declaring exactly the bytes that follow it: a raw sequence
\* and then k empty strings
Frame(s, k) ==
    HeaderEncode(TRUE, Len(s) + k) \o s \o Rep(EMPTY_STRING_CODE, k)

RawInputs ==
    RawSeqs \cup {Frame(s, k) : s \in RawSeqs,
                  k \in {BRANCH_LIST_LENGTH - 2, BRANCH_LIST_LENGTH - 1}}

(* ---------------------------------------------------------------- *)
(* The codec driven as the tests drive it                            *)
(* ---------------------------------------------------------------- *)

VARIABLES
    node,     \* the node handed to the encoder (NoNode when decoding raw bytes)
    len,      \* the value of node.length()
    out,      \* the sink node.encode() wrote to
    blinded,  \* the results of node.blind() and of blinding that result
    buf,      \* the bytes handed to TrieNode::decode
    res,      \* what TrieNode::decode returned
    reenc,    \* the sink the decoded node was encoded to
    bout,     \* the sink encode_blinded(&node, ..) wrote to, node taken as a child
    blen,     \* the value of blinded_length(&node)
    pc

vars == <<node, len, out, blinded, buf, res, reenc, bout, blen, pc>>

Fresh ==
    /\ len = 0
    /\ out = <<>>
    /\ blinded = <<>>
    /\ res = NoResult
    /\ reenc = <<>>
    /\ bout = <<>>
    /\ blen = 0

\* a node built by the caller
Init ==
    /\ node \in Nodes
    /\ buf = <<>>
    /\ pc = "new"
    /\ Fresh

\* bytes received from outside
InitWire ==
    /\ node = NoNode
    /\ buf \in RawInputs
    /\ pc = "received"
    /\ Fresh

\* Vec::with_capacity(expected.length())
Length ==
    /\ pc = "new"
    /\ len' = length(node)
    /\ pc' = "measured"
    /\ UNCHANGED <<node, out, blinded, buf, res, reenc, bout, blen>>

\* expected.encode(&mut rlp_buf)
Encode ==
    /\ pc = "measured"
    /\ out' = encode(node)
    /\ pc' = "encoded"
    /\ UNCHANGED <<node, len, blinded, buf, res, reenc, bout, blen>>

\* node.clone().blind()
Blind ==
    /\ pc = "encoded"
    /\ blinded' = <<blind(node)>>
    /\ pc' = "blinded"
    /\ UNCHANGED <<node, len, out, buf, res, reenc, bout, blen>>

\* .blind() of the blinded node
BlindAgain ==
    /\ pc = "blinded"
    /\ blinded' = Append(blinded, blind(blinded[1]))
    /\ pc' = "reblinded"
    /\ UNCHANGED <<node, len, out, buf, res, reenc, bout, blen>>

\* the node taken as the child of an extension: blinded_length(node.as_ref())
\* and encode_blinded(node.as_ref(), out)
EncodeBlinded ==
    /\ pc = "reblinded"
    /\ blen' = blinded_length(node)
    /\ bout' = encode_blinded(node)
    /\ pc' = "embedded"
    /\ UNCHANGED <<node, len, out, blinded, buf, res, reenc>>

\* the encoded bytes become the decoder's input
RoundTrip ==
    /\ pc = "embedded"
    /\ buf' = out
    /\ pc' = "received"
    /\ UNCHANGED <<node, len, out, blinded, res, reenc, bout, blen>>

\* TrieNode::decode(&mut buf)
Decode ==
    /\ pc = "received"
    /\ res' = decode(buf)
    /\ pc' = "decoded"
    /\ UNCHANGED <<node, len, out, blinded, buf, reenc, bout, blen>>

\* the decoded node encoded again
Reencode ==
    /\ pc = "decoded"
    /\ res.tag = "Ok"
    /\ reenc' = encode(res.val)
    /\ pc' = "reencoded"
    /\ UNCHANGED <<node, len, out, blinded, buf, res, bout, blen>>

Next ==
    \/ Length
    \/ Encode
    \/ Blind
    \/ BlindAgain
    \/ EncodeBlinded
    \/ RoundTrip
    \/ Decode
    \/ Reencode

NextWire ==
    \/ Decode
    \/ Reencode

Spec == Init /\ [][Next]_vars

SpecWire == InitWire /\ [][NextWire]_vars

Encoded ==
    pc \in {"encoded", "blinded", "reblinded", "embedded", "received",
            "decoded", "reencoded"}

Decoded == pc \in {"decoded", "reencoded"}

TypeOK ==
    /\ pc \in {"new", "measured", "encoded", "blinded", "reblinded", "embedded",
               "received", "decoded", "reencoded"}
    /\ res.tag \in {"None", "Ok", "Err", "Panic"}

(* ---------------------------------------------------------------- *)
(* Predicates on nodes and on wire bytes used by the properties      *)
(* ---------------------------------------------------------------- *)

RECURSIVE WellFormed(_)
\* the data-model invariants: 17 branch slots, 32-byte commitments, and the
\* high nibble of a leaf key in {2,3} and of an extension prefix in {0,1}
WellFormed(n) ==
    CASE n.type = "Empty" -> TRUE
      [] n.type = "Blinded" -> Len(n.commitment) = B256_LEN_BYTES
      [] n.type = "Leaf" ->
            /\ n.key # <<>>
            /\ (n.key[1] \div 16) \in {PREFIX_LEAF_EVEN, PREFIX_LEAF_ODD}
      [] n.type = "Extension" ->
            /\ n.prefix # <<>>
            /\ (n.prefix[1] \div 16) \in {PREFIX_EXTENSION_EVEN, PREFIX_EXTENSION_ODD}
            /\ WellFormed(n.node[1])
      [] n.type = "Branch" ->
            /\ Len(n.stack) = BRANCH_LIST_LENGTH
            /\ \A i \in 1..Len(n.stack) : WellFormed(n.stack[i])
      [] OTHER -> FALSE

\* the children of a node: an extension's child, a branch's slots
Children(n) ==
    CASE n.type = "Extension" -> n.node
      [] n.type = "Branch" -> n.stack
      [] OTHER -> <<>>

\* the encoding of c is longer than an encoded 32-byte string
IsLong(c) == Len(encode(c)) > B256_ZERO_length

RECURSIVE NoLongChild(_)
NoLongChild(n) ==
    \A i \in 1..Len(Children(n)) :
        ~IsLong(Children(n)[i]) /\ NoLongChild(Children(n)[i])

RECURSIVE BlindChildren(_)
\* n with every child whose encoding exceeds 33 bytes replaced by the
\* commitment to that encoding
BlindChildren(n) ==
    LET sub(c) == IF IsLong(c) THEN Blinded(keccak256(encode(c)))
                  ELSE BlindChildren(c)
    IN  CASE n.type = "Extension" -> Extension(n.prefix, sub(n.node[1]))
          [] n.type = "Branch" ->
                Branch([i \in 1..Len(n.stack) |-> sub(n.stack[i])])
          [] OTHER -> n

RECURSIVE AllBranches17(_)
AllBranches17(n) ==
    /\ n.type = "Branch" => Len(n.stack) = BRANCH_LIST_LENGTH
    /\ \A i \in 1..Len(Children(n)) : AllBranches17(Children(n)[i])

\* the bytes decode consumed from buf
Consumed == Len(buf) - Len(res.rest)

\* buf opens with a well-formed list header
IsList(b) == HeaderDecode(b).ok /\ HeaderDecode(b).list

\* the number of items the list at the front of b is counted to have
Arity(b) == rlp_list_element_length(b).val

\* the path of the two-element list at the front of b
PathOf(b) ==
    BytesDecode(Advance(b, HeaderLength(HeaderDecode(b).payload_length)))

HasPath(b) ==
    /\ IsList(b)
    /\ rlp_list_element_length(b).tag = "Ok"
    /\ Arity(b) = LEAF_OR_EXTENSION_LIST_LENGTH
    /\ PathOf(b).tag = "Ok"
    /\ PathOf(b).val # <<>>

\* the four causes of rejection the failure taxonomy tells apart
ArityCause(b) ==
    /\ IsList(b)
    /\ rlp_list_element_length(b).tag = "Ok"
    /\ Arity(b) \notin {LEAF_OR_EXTENSION_LIST_LENGTH, BRANCH_LIST_LENGTH}

StringLengthCause(b) ==
    /\ HeaderDecode(b).ok
    /\ ~HeaderDecode(b).list
    /\ HeaderDecode(b).payload_length \notin {0, B256_LEN_BYTES}

PathPrefixCause(b) ==
    /\ HasPath(b)
    /\ (PathOf(b).val[1] \div 16) \notin
          {PREFIX_EXTENSION_EVEN, PREFIX_EXTENSION_ODD,
           PREFIX_LEAF_EVEN, PREFIX_LEAF_ODD}

ChildCause(b) ==
    /\ HasPath(b)
    /\ (PathOf(b).val[1] \div 16) \in {PREFIX_EXTENSION_EVEN, PREFIX_EXTENSION_ODD}
    /\ decode(PathOf(b).rest).tag = "Err"

\* the error values decode gives for the three rejections of the test plan:
\* a list of arity 3, a byte string of length 17, a path opening with nibble 4
ArityError == decode(<<195, 128, 128, 128>>).err

StringLengthError == decode(<<145>> \o Rep(0, 17)).err

PathPrefixError == decode(<<194, 64, 128>>).err

\* the extension of scenario S3 and its child
S3Child == Leaf(<<48>>, Rep(255, 64))

S3Node == Extension(<<0, 100, 111>>, S3Child)

(* ---------------------------------------------------------------- *)
(* Properties                                                        *)
(* ---------------------------------------------------------------- *)

\* C1: length agreement. Once a node has been measured and encoded, the
\* value of length() is the number of bytes encode() wrote, for every
\* variant and nesting.
C1_LengthAgreement == Encoded /\ node # NoNode => len = Len(out)

\* C2: the encoding of Extension{prefix, child} is a list header declaring
\* len(bytes(prefix)) + len(encode_blinded(child)), then bytes(prefix), then
\* encode_blinded(child); the extension of S3 encodes to the 38 bytes
\* e5 83 00 64 6f a0 followed by the digest of the leaf's encoding.
C2_ExtensionLayout ==
    Encoded /\ node.type = "Extension" =>
        /\ out = HeaderEncode(TRUE, Len(BytesEncode(node.prefix))
                                      + Len(encode_blinded(node.node[1])))
                   \o BytesEncode(node.prefix)
                   \o encode_blinded(node.node[1])
        /\ node = S3Node =>
              out = <<229, 131, 0, 100, 111, 160>> \o keccak256(encode(S3Child))

\* C3: round trip (mixed). Decoding the encoding of a node that satisfies
\* the data-model invariants succeeds and gives the node with every child
\* whose encoding exceeds 33 bytes replaced by its commitment.
C3_RoundTripMixed ==
    Decoded /\ node # NoNode /\ WellFormed(node) =>
        /\ res.tag = "Ok"
        /\ res.val = BlindChildren(node)

\* C4: round trip (open). Decoding the encoding of an open node that
\* satisfies the data-model invariants and contains no child whose encoding
\* is longer than 33 bytes succeeds, consumes the whole encoding and gives
\* the node back.
C4_RoundTripOpen ==
    Decoded /\ node # NoNode /\ node.type # "Blinded"
            /\ WellFormed(node) /\ NoLongChild(node) =>
        /\ res.tag = "Ok"
        /\ res.val = node
        /\ res.rest = <<>>

\* C4 witness: an extension with an inline leaf child, and a branch with an
\* inline leaf in a slot, have made the round trip
C4_Witness ==
    /\ Decoded
    /\ node.type \in {"Extension", "Branch"}
    /\ WellFormed(node) /\ NoLongChild(node)
    /\ \E i \in 1..Len(Children(node)) : Children(node)[i].type = "Leaf"
    /\ res.tag = "Ok"
    /\ res.val = node

\* C5: decode-then-encode is byte-exact. When decode succeeds on b, the
\* encoding of the node it returns is exactly the bytes of b it consumed.
C5_DecodeEncodeExact == pc = "reencoded" => reenc = Take(buf, Consumed)

\* C6: every Branch that decode returns, at the top or nested at any depth,
\* has exactly 17 stack elements.
C6_BranchHas17 == Decoded /\ res.tag = "Ok" => AllBranches17(res.val)

\* C7: decode rejects an input whose list payload does not match the
\* declared length: a list that decode accepts was consumed up to exactly
\* header length + declared payload length.
C7_FramingRejected ==
    Decoded /\ IsList(buf) /\ res.tag = "Ok" =>
        Consumed = HeaderLength(HeaderDecode(buf).payload_length)
                     + HeaderDecode(buf).payload_length

\* C8: decode never panics; each input gives a node or an error value, and
\* the two-element list c2 80 80 with an empty path gives an error.
C8_NoPanic ==
    Decoded =>
        /\ res.tag \in {"Ok", "Err"}
        /\ buf = <<194, 128, 128>> => res.tag = "Err"

\* C9: rejection kinds. A list of arity other than 2 and 17, a byte string
\* of length other than 0 and 32, and a path whose high nibble is outside
\* {0,1,2,3} are rejected with three distinct error values, and a failure
\* in an extension's child is not reported with the bad-path-prefix value.
C9_RejectionKinds ==
    Decoded =>
        /\ ArityCause(buf) =>
              res.tag = "Err" /\ res.err \notin {StringLengthError, PathPrefixError}
        /\ StringLengthCause(buf) =>
              res.tag = "Err" /\ res.err \notin {ArityError, PathPrefixError}
        /\ PathPrefixCause(buf) =>
              res.tag = "Err" /\ res.err \notin {ArityError, StringLengthError}
        /\ ChildCause(buf) => res.tag = "Err" /\ res.err # PathPrefixError

\* C10: blinding idempotence. blind(blind(n)) = blind(n); blind leaves Empty
\* and Blinded nodes as they are; the result of blind is never longer than
\* 33 bytes.
C10_BlindIdempotent ==
    Len(blinded) = 2 =>
        /\ blinded[2] = blinded[1]
        /\ node.type \in {"Empty", "Blinded"} => blinded[1] = node
        /\ length(blinded[1]) <= B256_ZERO_length

\* C10 witness: a node longer than 33 bytes was blinded to a commitment and
\* blinded again
C10_Witness ==
    /\ Len(blinded) = 2
    /\ len > B256_ZERO_length
    /\ node.type # "Blinded"
    /\ blinded[1].type = "Blinded"
    /\ blinded[2] = blinded[1]

\* the smaller of two lengths
Min(a, b) == IF a < b THEN a ELSE b

\* the node has been through encode_blinded and blinded_length
Embedded == pc \in {"embedded", "received", "decoded", "reencoded"} /\ node # NoNode

====
